---- MODULE Spec2Model ----
(***************************************************************************)
(* Presence model and clock-ring renderer of THE STILL.                    *)
(*                                                                         *)
(* PresenceSystem (src/src/systems/PresenceSystem.ts) owns one scalar      *)
(* level and a three-window fade timeline; ClockSystem / RingPoints         *)
(* (src/unnamed/part_004, the presence-driven revision, lines 930-1300)     *)
(* paint three rings; CoreSystem.update (src/unnamed/part_005) drives both  *)
(* once per frame.                                                          *)
(*                                                                         *)
(* Numbers.  A JavaScript number is modelled as a fixed-point value with    *)
(* six decimals: the integer n stands for n / One.  One micro-unit is the   *)
(* code's own EPS (1e-6), so every literal of the source (0.001, 0.031,     *)
(* 0.05, 1e-4, 1e-6) is an integer here.  Products and quotients are        *)
(* rounded toward zero after every operation, but a non-zero result is      *)
(* never rounded to zero: a double does not underflow on the magnitudes     *)
(* that occur here.  NaN is one reserved value; every comparison with it    *)
(* is false and every arithmetic operation propagates it.                   *)
(***************************************************************************)
EXTENDS Integers, Sequences, FiniteSets, TLC

\* ------------------------------------------------------------------
\* Fixed-point numbers
\* ------------------------------------------------------------------

One == 1000 * 1000

Thousand == 1000

NaN == 0 - 2147483647

Null == 0 - 2147483646

IsNaN(x) == x = NaN

Lt(a, b) == ~IsNaN(a) /\ ~IsNaN(b) /\ a < b

Le(a, b) == ~IsNaN(a) /\ ~IsNaN(b) /\ a <= b

Gt(a, b) == ~IsNaN(a) /\ ~IsNaN(b) /\ a > b

Ge(a, b) == ~IsNaN(a) /\ ~IsNaN(b) /\ a >= b

Abs(x) == IF x < 0 THEN 0 - x ELSE x

Sign(x) == IF x < 0 THEN 0 - 1 ELSE 1

Add(a, b) == IF IsNaN(a) \/ IsNaN(b) THEN NaN ELSE a + b

Sub(a, b) == IF IsNaN(a) \/ IsNaN(b) THEN NaN ELSE a - b

\* a * b / One for a, b >= 0, rounded down but not to zero, without an
\* intermediate above 2^31: both factors are split into thousands.
MulNat(a, b) ==
  LET ah == a \div Thousand
      al == a % Thousand
      bh == b \div Thousand
      bl == b % Thousand
      q == ah * bh + ((ah * bl + al * bh + ((al * bl) \div Thousand)) \div Thousand)
  IN  IF q = 0 /\ a > 0 /\ b > 0 THEN 1 ELSE q

Mul(a, b) ==
  IF IsNaN(a) \/ IsNaN(b) THEN NaN
  ELSE Sign(a) * Sign(b) * MulNat(Abs(a), Abs(b))

\* long division: k more decimals of r / b appended to acc, for 0 <= r < b
RECURSIVE DivDigits(_, _, _, _)
DivDigits(r, b, k, acc) ==
  IF k = 0 THEN acc
  ELSE DivDigits((r * 10) % b, b, k - 1, acc * 10 + ((r * 10) \div b))

\* a * One / b for a >= 0, b > 0, rounded down but not to zero
DivNat(a, b) ==
  LET q == DivDigits(a % b, b, 6, a \div b)
  IN  IF q = 0 /\ a > 0 THEN 1 ELSE q

\* JavaScript x / y.  A zero divisor gives NaN for 0/0; the signed
\* infinities of x/0 are outside the grid and are not produced by any
\* caller (every divisor of the source is floored above zero first).
Div(a, b) ==
  IF IsNaN(a) \/ IsNaN(b) \/ b = 0 THEN NaN
  ELSE Sign(a) * Sign(b) * DivNat(Abs(a), Abs(b))

\* JavaScript x % y: the remainder takes the sign of the dividend
RemJS(a, b) ==
  IF IsNaN(a) \/ IsNaN(b) \/ b = 0 THEN NaN
  ELSE Sign(a) * (Abs(a) % Abs(b))

\* Math.max / Math.min: NaN if either argument is NaN
MathMax(a, b) == IF IsNaN(a) \/ IsNaN(b) THEN NaN ELSE IF a >= b THEN a ELSE b

MathMin(a, b) == IF IsNaN(a) \/ IsNaN(b) THEN NaN ELSE IF a <= b THEN a ELSE b

\* THREE.MathUtils.clamp(value, min, max) = Math.max(min, Math.min(max, value))
Clamp(value, lo, hi) == MathMax(lo, MathMin(hi, value))

\* THREE.MathUtils.lerp(x, y, t) = (1 - t) * x + t * y
Lerp(x, y, t) == Add(Mul(Sub(One, t), x), Mul(t, y))

RECURSIVE PowInt(_, _)
PowInt(x, n) == IF n = 0 THEN One ELSE Mul(x, PowInt(x, n - 1))

\* Math.pow(x, y) for y >= 0.  y = 0 gives 1 (also for NaN); a whole
\* exponent is repeated multiplication; a negative base with a fractional
\* exponent is NaN; a fractional exponent n + f on a base in [0, 1] is
\* x^n times the chord 1 - f + f*x of x^f (0 at x = 0).
Pow(x, y) ==
  IF IsNaN(y) THEN NaN
  ELSE IF y = 0 THEN One
  ELSE IF IsNaN(x) THEN NaN
  ELSE LET n == y \div One
           f == y % One
       IN  IF f = 0 THEN PowInt(x, n)
           ELSE IF x < 0 THEN NaN
           ELSE IF x = 0 THEN 0
           ELSE Mul(PowInt(x, n), Add(Sub(One, f), Mul(f, x)))

\* ------------------------------------------------------------------
\* PresenceSystem
\* ------------------------------------------------------------------

GateFields == {"hourFadeSeconds", "minuteFadeSeconds", "secondFadeSeconds", "easePower"}

\* the field initialiser of PresenceSystem.gates: 60 / 30 / 15 seconds, easePower 1
DefaultGates ==
  [hourFadeSeconds |-> 60 * One, minuteFadeSeconds |-> 30 * One,
   secondFadeSeconds |-> 15 * One, easePower |-> One]

\* Math.max(0.001, duration)
MinFadeSeconds == Thousand

\* the step of the '[' and ']' hotkeys, 0.05
HotkeyStep == 50 * Thousand

VARIABLES
  level,            \* PresenceSystem.state.level
  gates,            \* PresenceSystem.gates
  debugKeyHandler,  \* PresenceSystem.debugKeyHandler is set
  clock,            \* the knobs and presence fields of ClockSystem
  rings,            \* the three RingPoints: layout, tail fractions, colour buffer
  frame,            \* the calls and paint arguments of the latest CoreSystem.update
  lastOp,           \* the public call that produced this state, with its argument
                    \* (for setGatesConfig: the fields present in the partial)
  sceneManager,     \* SceneManager: ctx, current, pending, initializedScenes, save
  scenes,           \* the SceneController instances constructed so far
  engine,           \* Engine: running, and the loop callbacks the browser holds
  trace,            \* the scene callbacks made by the latest operation, in order
  controls,         \* the fields of ControlSystem
  pointer,          \* where the pointer was last seen, and the deltas not yet reported
  keyTargets,       \* the keydown listeners attached to each event target
  demoClock         \* the ClockSystem that DemoScene builds beside its CoreSystem

appVars == <<sceneManager, scenes, engine, trace, controls, pointer, keyTargets, demoClock>>

vars == <<level, gates, debugKeyHandler, clock, rings, frame, lastOp,
          sceneManager, scenes, engine, trace, controls, pointer, keyTargets, demoClock>>

presenceVars == <<level, gates, debugKeyHandler>>

clockVars == <<clock, rings, frame>>

\* setPresenceLevel with the upper bound of the clamp forgotten
setPresenceLevelNoCeiling(v) == MathMax(0, v)

\* setPresenceLevel(level): the level after the call
setPresenceLevel(v) == Clamp(v, 0, One)

\* nudgePresence(delta): setPresenceLevel(this.state.level + delta)
nudgePresence(cur, delta) == setPresenceLevel(Add(cur, delta))

\* setGatesConfig flooring the durations at 0 instead of 0.001
setGatesConfigZeroFloor(g, partial) ==
  LET merged == [f \in GateFields |-> IF f \in DOMAIN partial THEN partial[f] ELSE g[f]]
  IN  [hourFadeSeconds   |-> MathMax(0, merged.hourFadeSeconds),
       minuteFadeSeconds |-> MathMax(0, merged.minuteFadeSeconds),
       secondFadeSeconds |-> MathMax(0, merged.secondFadeSeconds),
       easePower         |-> MathMax(0, merged.easePower)]

\* setGatesConfig flooring easePower at 0.001 like the durations
setGatesConfigEaseFloor(g, partial) ==
  LET merged == [f \in GateFields |-> IF f \in DOMAIN partial THEN partial[f] ELSE g[f]]
  IN  [hourFadeSeconds   |-> MathMax(MinFadeSeconds, merged.hourFadeSeconds),
       minuteFadeSeconds |-> MathMax(MinFadeSeconds, merged.minuteFadeSeconds),
       secondFadeSeconds |-> MathMax(MinFadeSeconds, merged.secondFadeSeconds),
       easePower         |-> MathMax(MinFadeSeconds, merged.easePower)]

\* setGatesConfig(partial): spread merge, then the four safety clamps
setGatesConfig(g, partial) ==
  LET merged == [f \in GateFields |-> IF f \in DOMAIN partial THEN partial[f] ELSE g[f]]
  IN  [hourFadeSeconds   |-> MathMax(MinFadeSeconds, merged.hourFadeSeconds),
       minuteFadeSeconds |-> MathMax(MinFadeSeconds, merged.minuteFadeSeconds),
       secondFadeSeconds |-> MathMax(MinFadeSeconds, merged.secondFadeSeconds),
       easePower         |-> MathMax(0, merged.easePower)]

\* the test `t <= 0` on t = num / stageDuration, decided on the operands
\* (x/0 is an infinity with the sign of x, 0/0 is NaN)
TLe0(num, dur) ==
  /\ ~IsNaN(num) /\ ~IsNaN(dur)
  /\ \/ dur > 0 /\ num <= 0
     \/ dur < 0 /\ num >= 0
     \/ dur = 0 /\ num < 0

\* the test `t >= 1` on t = num / stageDuration, decided on the operands
TGe1(num, dur) ==
  /\ ~IsNaN(num) /\ ~IsNaN(dur)
  /\ \/ dur > 0 /\ num >= dur
     \/ dur < 0 /\ num <= dur
     \/ dur = 0 /\ num > 0

\* computeStageValue with the window guards and the final clamp left out:
\* Math.pow(1 - t, 1 + easePower) on the raw t (t saturated at +-2 to stay on
\* the grid)
computeStageValueRaw(g, progressedSeconds, stageStart, stageDuration) ==
  LET num == Sub(progressedSeconds, stageStart)
      t == IF num >= 2 * stageDuration THEN 2 * One
           ELSE IF num <= 0 - 2 * stageDuration THEN 0 - 2 * One
           ELSE Div(num, stageDuration)
      linear == Sub(One, t)
  IN  IF Le(g.easePower, 0) THEN linear
      ELSE Pow(linear, Add(One, g.easePower))

\* computeStageValue fading in the wrong direction inside the window
computeStageValueRising(g, progressedSeconds, stageStart, stageDuration) ==
  LET num == Sub(progressedSeconds, stageStart)
  IN  IF TLe0(num, stageDuration) THEN One
      ELSE IF TGe1(num, stageDuration) THEN 0
      ELSE LET t == Div(num, stageDuration)
               eased == IF Le(g.easePower, 0) THEN t
                        ELSE Pow(t, Add(One, g.easePower))
           IN  Clamp(eased, 0, One)

\* computeStageValue(progressedSeconds, stageStart, stageDuration).
\* t = (progressed - stageStart) / stageDuration is only materialised inside
\* the window, where it lies in (0, 1); the two guards are decided on the
\* numerator and the divisor.
computeStageValue(g, progressedSeconds, stageStart, stageDuration) ==
  LET num == Sub(progressedSeconds, stageStart)
  IN  IF TLe0(num, stageDuration) THEN One
      ELSE IF TGe1(num, stageDuration) THEN 0
      ELSE LET t == Div(num, stageDuration)
               linear == Sub(One, t)
               eased == IF Le(g.easePower, 0) THEN linear
                        ELSE Pow(linear, Add(One, g.easePower))
           IN  Clamp(eased, 0, One)

\* `progressed` running with presence instead of against it
ProgressedInverted(lvl, g) ==
  LET p == Clamp(lvl, 0, One)
      total == Add(Add(g.hourFadeSeconds, g.minuteFadeSeconds), g.secondFadeSeconds)
  IN  Mul(p, total)

\* the local `progressed` of getClockPresenceLevels
Progressed(lvl, g) ==
  LET p == Clamp(lvl, 0, One)
      total == Add(Add(g.hourFadeSeconds, g.minuteFadeSeconds), g.secondFadeSeconds)
  IN  Mul(Sub(One, p), total)

\* getClockPresenceLevels with the second window starting where the minute
\* window starts
getClockPresenceLevelsOverlap(lvl, g) ==
  LET progressed == Progressed(lvl, g)
  IN  [hour   |-> computeStageValue(g, progressed, 0, g.hourFadeSeconds),
       minute |-> computeStageValue(g, progressed, g.hourFadeSeconds, g.minuteFadeSeconds),
       second |-> computeStageValue(g, progressed, g.hourFadeSeconds, g.secondFadeSeconds)]

\* getClockPresenceLevels with the hour window placed after the minute window
getClockPresenceLevelsSwapped(lvl, g) ==
  LET progressed == Progressed(lvl, g)
  IN  [hour   |-> computeStageValue(g, progressed, g.minuteFadeSeconds, g.hourFadeSeconds),
       minute |-> computeStageValue(g, progressed, 0, g.minuteFadeSeconds),
       second |-> computeStageValue(g, progressed,
                                    Add(g.hourFadeSeconds, g.minuteFadeSeconds),
                                    g.secondFadeSeconds)]

getClockPresenceLevels(lvl, g) ==
  LET progressed == Progressed(lvl, g)
  IN  [hour   |-> computeStageValue(g, progressed, 0, g.hourFadeSeconds),
       minute |-> computeStageValue(g, progressed, g.hourFadeSeconds, g.minuteFadeSeconds),
       second |-> computeStageValue(g, progressed,
                                    Add(g.hourFadeSeconds, g.minuteFadeSeconds),
                                    g.secondFadeSeconds)]

\* the keydown listener installed by enableDebugHotkeys: the level after one event
debugKeyHandlerResult(cur, key, tag) ==
  IF tag = "input" \/ tag = "textarea" THEN cur
  ELSE IF key = "[" THEN nudgePresence(cur, 0 - HotkeyStep)
  ELSE IF key = "]" THEN nudgePresence(cur, HotkeyStep)
  ELSE IF key = "\\" THEN setPresenceLevel(One)
  ELSE IF key = "'" THEN setPresenceLevel(0)
  ELSE cur

\* ------------------------------------------------------------------
\* RingPoints
\* ------------------------------------------------------------------

Rings == {"hour", "minute", "second"}

\* Math.PI * 2
Tau == 6283185

\* const EPS = 1e-6
EPS == 1

\* the floor of minArc and maxArc, 1e-4
ArcFloor == 100

\* const TAIL_FLOOR = 0.031
TAIL_FLOOR == 31 * Thousand

\* config.pointsPerRing (12 when absent), scaled down
PointsPerRing == 1

\* a colour channel of new THREE.Color(0xRRGGBB): the byte over 255
Channel(byte) == Div(byte, 255)

\* new RingPoints(config): the fields updateFill reads, and the zeroed buffer
RingPoints_new(config) ==
  [count |-> config.points,
   angles |-> [i \in 0..(config.points - 1) |-> Mul(Div(i, config.points), Tau)],
   falloffPower |-> Lerp(1200 * Thousand, 3 * One, Clamp(config.falloffFactor, 0, One)),
   minTailLengthFraction |-> Clamp(config.minTailLength, 0, One),
   maxTailLengthFraction |-> Clamp(config.maxTailLength, 0, One),
   baseColor |-> config.baseColor,
   colors |-> [i \in 0..(config.points - 1) |-> <<0, 0, 0>>]]

\* the arguments of one updateFill call reduced to what the loop uses
TailArc(ring, presenceLevel) ==
  LET presence == Clamp(presenceLevel, 0, One)
      minArc == MathMax(Mul(ring.minTailLengthFraction, Tau), ArcFloor)
      maxArc == MathMax(Mul(ring.maxTailLengthFraction, Tau), ArcFloor)
  IN  Lerp(minArc, maxArc, presence)

\* headAngle normalised to [0, TAU)
NormalizedHead(headAngle) ==
  LET head == RemJS(headAngle, Tau)
  IN  IF Lt(head, 0) THEN Add(head, Tau) ELSE head

\* the loop body with the gradient reversed: t = deltaBack / tailArc
PointIntensityTailBright(ring, i, head, tailArc, safeIntensityScale) ==
  LET angle == ring.angles[i]
      deltaBack == RemJS(Add(Sub(head, angle), Tau), Tau)
      lit == Ge(deltaBack, 0) /\ Le(deltaBack, Add(tailArc, EPS))
      inArc == LET t == Div(deltaBack, tailArc)
                   shaped == Pow(t, ring.falloffPower)
               IN  Add(TAIL_FLOOR, Mul(Sub(One, TAIL_FLOOR), shaped))
      scaled == Mul(IF lit THEN inArc ELSE 0, safeIntensityScale)
  IN  IF Gt(scaled, One) THEN One ELSE scaled

\* the body of the loop of updateFill for point i: its intensity
PointIntensity(ring, i, head, tailArc, safeIntensityScale) ==
  LET angle == ring.angles[i]
      deltaBack == RemJS(Add(Sub(head, angle), Tau), Tau)
      lit == Ge(deltaBack, 0) /\ Le(deltaBack, Add(tailArc, EPS))
      inArc == LET t == Sub(One, Div(deltaBack, tailArc))
                   shaped == Pow(t, ring.falloffPower)
               IN  Add(TAIL_FLOOR, Mul(Sub(One, TAIL_FLOOR), shaped))
      scaled == Mul(IF lit THEN inArc ELSE 0, safeIntensityScale)
  IN  IF Gt(scaled, One) THEN One ELSE scaled

\* updateFill writing only the points that are not dark: a dark point keeps
\* the colour an earlier call left
updateFillLitOnly(ring, headAngle, intensityScale, presenceLevel, mode) ==
  LET head == NormalizedHead(headAngle)
      safeIntensityScale == MathMax(0, intensityScale)
      tailArc == TailArc(ring, presenceLevel)
  IN  [i \in 0..(ring.count - 1) |->
         LET intensity == PointIntensity(ring, i, head, tailArc, safeIntensityScale)
         IN  IF intensity = 0 THEN ring.colors[i]
             ELSE <<Mul(ring.baseColor[1], intensity),
                    Mul(ring.baseColor[2], intensity),
                    Mul(ring.baseColor[3], intensity)>>]

\* updateFill dimming every point when the mode is not "classic"
updateFillModes(ring, headAngle, intensityScale, presenceLevel, mode) ==
  LET head == NormalizedHead(headAngle)
      safeIntensityScale == MathMax(0, intensityScale)
      tailArc == TailArc(ring, presenceLevel)
      dim == IF mode = "classic" THEN One ELSE One \div 2
  IN  [i \in 0..(ring.count - 1) |->
         LET intensity == Mul(dim, PointIntensity(ring, i, head, tailArc, safeIntensityScale))
         IN  <<Mul(ring.baseColor[1], intensity),
               Mul(ring.baseColor[2], intensity),
               Mul(ring.baseColor[3], intensity)>>]

\* RingPoints.updateFill(headAngle, intensityScale, presenceLevel, mode):
\* the colour buffer after the call
updateFill(ring, headAngle, intensityScale, presenceLevel, mode) ==
  LET head == NormalizedHead(headAngle)
      safeIntensityScale == MathMax(0, intensityScale)
      tailArc == TailArc(ring, presenceLevel)
  IN  [i \in 0..(ring.count - 1) |->
         LET intensity == PointIntensity(ring, i, head, tailArc, safeIntensityScale)
         IN  <<Mul(ring.baseColor[1], intensity),
               Mul(ring.baseColor[2], intensity),
               Mul(ring.baseColor[3], intensity)>>]

\* ------------------------------------------------------------------
\* ClockSystem
\* ------------------------------------------------------------------

\* ClockSystemConfig of `new ClockSystem()`: minTailLength 0.031, maxTailLength 0.97
DefaultClockConfig ==
  [pointsPerRing |-> PointsPerRing, minTailLength |-> 31 * Thousand,
   maxTailLength |-> 970 * Thousand]

\* the three rings built by the constructor of ClockSystem
ClockSystem_rings(config) ==
  LET minTail == Clamp(config.minTailLength, 0, One)
      maxTail == Clamp(config.maxTailLength, 0, One)
      ring(points, r, g, b) ==
        RingPoints_new([points |-> points, falloffFactor |-> 350 * Thousand,
                        minTailLength |-> minTail, maxTailLength |-> maxTail,
                        baseColor |-> <<Channel(r), Channel(g), Channel(b)>>])
  IN  [hour   |-> ring(config.pointsPerRing, 212, 175, 55),
       minute |-> ring(config.pointsPerRing * 5, 127, 208, 255),
       second |-> ring(config.pointsPerRing * 30, 255, 79, 154)]

\* the field initialisers of ClockSystem
ClockSystem_fields ==
  [colorMode |-> "classic", globalIntensity |-> One, distanceFactor |-> One,
   audioLow |-> 0, audioMid |-> 0, audioHigh |-> 0,
   presenceLevel |-> 0, hourPresence |-> Null, minutePresence |-> Null,
   secondPresence |-> Null]

\* ClockSystem.setRingPresenceLevels(levels)
ClockSystem_setRingPresenceLevels(c, levels) ==
  [c EXCEPT !.hourPresence = Clamp(levels.hour, 0, One),
            !.minutePresence = Clamp(levels.minute, 0, One),
            !.secondPresence = Clamp(levels.second, 0, One)]

\* ClockSystem.clearRingPresenceOverrides()
ClockSystem_clearRingPresenceOverrides(c) ==
  [c EXCEPT !.hourPresence = Null, !.minutePresence = Null, !.secondPresence = Null]

\* ClockSystem.setPresenceLevel(value): clamps, then clears the overrides
ClockSystem_setPresenceLevel(c, value) ==
  ClockSystem_clearRingPresenceOverrides([c EXCEPT !.presenceLevel = Clamp(value, 0, One)])

\* setGlobalIntensity storing its argument unclamped
ClockSystem_setGlobalIntensityRaw(c, value) == [c EXCEPT !.globalIntensity = value]

\* ClockSystem.setGlobalIntensity(value)
ClockSystem_setGlobalIntensity(c, value) == [c EXCEPT !.globalIntensity = MathMax(0, value)]

\* ClockSystem.setDistanceFactor(value)
ClockSystem_setDistanceFactor(c, value) == [c EXCEPT !.distanceFactor = MathMax(0, value)]

\* ClockSystem.setAudioLevels(low, mid, high)
ClockSystem_setAudioLevels(c, low, mid, high) ==
  [c EXCEPT !.audioLow = Clamp(low, 0, One), !.audioMid = Clamp(mid, 0, One),
            !.audioHigh = Clamp(high, 0, One)]

\* ClockSystem.setColorMode(mode)
ClockSystem_setColorMode(c, mode) == [c EXCEPT !.colorMode = mode]

\* the head angles ClockSystem.update derives from `new Date()`
HeadAngles(now) ==
  LET hourProgress ==
        Div(Add(Add(Add((now.hours % 12) * One, Div(now.minutes, 60)),
                    Div(now.seconds, 3600)), Div(now.ms, 3600000)), 12 * One)
      minuteProgress ==
        Div(Add(Add(now.minutes * One, Div(now.seconds, 60)), Div(now.ms, 60000)), 60 * One)
      secondProgress == Div(Add(now.seconds * One, Div(now.ms, 1000)), 60 * One)
  IN  [hour |-> Mul(hourProgress, Tau), minute |-> Mul(minuteProgress, Tau),
       second |-> Mul(secondProgress, Tau)]

\* the arguments ClockSystem.update passes to updateFill for each ring
PaintArgs(c, now) ==
  LET baseIntensity == Mul(c.globalIntensity, c.distanceFactor)
      boost(audio) == Add(One, Mul(audio, 600 * Thousand))
      or(override) == IF override = Null THEN c.presenceLevel ELSE override
      angles == HeadAngles(now)
  IN  [hour   |-> [head |-> angles.hour, scale |-> Mul(baseIntensity, boost(c.audioLow)),
                   presence |-> or(c.hourPresence)],
       minute |-> [head |-> angles.minute, scale |-> Mul(baseIntensity, boost(c.audioMid)),
                   presence |-> or(c.minutePresence)],
       second |-> [head |-> angles.second, scale |-> Mul(baseIntensity, boost(c.audioHigh)),
                   presence |-> or(c.secondPresence)]]

\* update advancing each head by the elapsed dt instead of reading the clock only
ClockSystem_updateAccumulated(c, rs, now, dt) ==
  LET args == PaintArgs(c, now)
  IN  [r \in Rings |->
         [rs[r] EXCEPT !.colors = updateFill(rs[r], Add(args[r].head, dt), args[r].scale,
                                             args[r].presence, c.colorMode)]]

\* ClockSystem.update(_dt): the rings after the three updateFill calls; the
\* time is the reading `now` of the wall clock, _dt is not read
ClockSystem_update(c, rs, now, dt) ==
  LET args == PaintArgs(c, now)
  IN  [r \in Rings |->
         [rs[r] EXCEPT !.colors = updateFill(rs[r], args[r].head, args[r].scale,
                                             args[r].presence, c.colorMode)]]

\* ------------------------------------------------------------------
\* CoreSystem
\* ------------------------------------------------------------------

\* the part of the program CoreSystem.update works on
World == [level |-> level, gates |-> gates, clock |-> clock, rings |-> rings,
          frame |-> frame]

NoFrame == [calls |-> <<>>, paint |-> <<>>]

Called(w, name) == [w EXCEPT !.frame.calls = Append(@, name)]

\* presence.update(dt) letting the level decay by 0.05 every frame
StepPresenceUpdateDecay(w) ==
  Called([w EXCEPT !.level = Clamp(Sub(@, HotkeyStep), 0, One)], "PresenceSystem.update")

\* this.presence.update(dt): only the unread timestamp lastUpdate is written
StepPresenceUpdate(w) == Called(w, "PresenceSystem.update")

\* this.clock.setRingPresenceLevels(this.presence.getClockPresenceLevels())
StepSetRingPresence(w) ==
  Called([w EXCEPT !.clock = ClockSystem_setRingPresenceLevels(
                                 w.clock, getClockPresenceLevels(w.level, w.gates))],
         "ClockSystem.setRingPresenceLevels")

\* this.clock.update(dt)
StepClockUpdate(w, now, dt) ==
  Called([w EXCEPT !.rings = ClockSystem_update(w.clock, w.rings, now, dt),
                   !.frame.paint = PaintArgs(w.clock, now)],
         "ClockSystem.update")

\* this.time.update(dt): a no-op shell
StepTimeUpdate(w) == Called(w, "TimeSystem.update")

\* new CoreSystem(deps): new ClockSystem(), new PresenceSystem(); deps.save is
\* stored and not read
CoreSystem_new(save) ==
  [level |-> 0, gates |-> DefaultGates, clock |-> ClockSystem_fields,
   rings |-> ClockSystem_rings(DefaultClockConfig), frame |-> NoFrame]

\* CoreSystem.update painting the clock before handing it the presence values
CoreSystem_updateClockFirst(w, now, dt) ==
  StepTimeUpdate(StepSetRingPresence(StepClockUpdate(StepPresenceUpdate(
    [w EXCEPT !.frame = NoFrame]), now, dt)))

\* CoreSystem.update(dt), statement by statement
CoreSystem_update(w, now, dt) ==
  StepTimeUpdate(StepClockUpdate(StepSetRingPresence(StepPresenceUpdate(
    [w EXCEPT !.frame = NoFrame])), now, dt))

\* ------------------------------------------------------------------
\* Inputs
\* ------------------------------------------------------------------

\* arguments of setPresenceLevel: below, inside and above [0, 1]
LevelInputs == {0 - One, 0, One \div 4, One \div 2, One, 2 * One}

\* arguments of nudgePresence
DeltaInputs == {0 - 3 * One, 0 - One \div 4, One \div 10, 3 * One}

Keys == {"[", "]", "\\", "'", "a"}

Tags == {"body", "input", "textarea"}

\* duration arguments of setGatesConfig: negative, zero, 10 s
DurationInputs == {0 - 5 * One, 0, 10 * One}

\* easePower arguments of setGatesConfig
EaseInputs == {0 - One, 0, One \div 2}

GateInputs(f) == IF f = "easePower" THEN EaseInputs ELSE DurationInputs

\* every Partial<PresenceGatesConfig> over the inputs
Partials ==
  UNION { { p \in [S -> DurationInputs \cup EaseInputs] : \A f \in S : p[f] \in GateInputs(f) }
          : S \in SUBSET GateFields }

\* the partial of the 10 / 10 / 10 seconds, easePower 0 scenario
ScenarioGates ==
  [hourFadeSeconds |-> 10 * One, minuteFadeSeconds |-> 10 * One,
   secondFadeSeconds |-> 10 * One, easePower |-> 0]

\* readings of `new Date()`: midnight, mid-afternoon
Times ==
  {[hours |-> 0, minutes |-> 0, seconds |-> 0, ms |-> 0],
   [hours |-> 15, minutes |-> 30, seconds |-> 45, ms |-> 500]}

\* the dt handed to update, in seconds: a 60 Hz frame, a frame after a pause
DtInputs == {16 * Thousand, 5 * One}

\* the ClockSystemConfig nearest to the four-point scenario: an hour ring of
\* 4 points whose tail arc is half a turn at every presence
ScenarioClockConfig ==
  [pointsPerRing |-> 4, minTailLength |-> One \div 2, maxTailLength |-> One \div 2]

\* the SaveData a SaveManager loaded: empty, or the last scene
SaveInputs == {[lastScene |-> "none"], [lastScene |-> "DemoScene"]}

\* ClockSystemConfig values: the defaults, and tail fractions 0 and 1 (tail arc
\* from the 1e-4 floor up to the full circle)
PaintConfigs ==
  {DefaultClockConfig,
   [pointsPerRing |-> PointsPerRing, minTailLength |-> 0, maxTailLength |-> One]}

\* headAngle arguments of updateFill: negative, zero, one EPS past the
\* shortest tail arc of either configuration, half a turn, above a full turn
HeadInputs ==
  {0 - 2 * One, 0, ArcFloor + EPS, Mul(31 * Thousand, Tau) + EPS, Tau \div 2, 7 * One}

\* intensityScale arguments of updateFill
ScaleInputs == {0 - One, 0, One, 1000 * One}

\* presenceLevel arguments of updateFill
PaintPresenceInputs == {0, One \div 2, One}

\* ------------------------------------------------------------------
\* The application around the core: scenes, engine, controls, hotkeys
\* ------------------------------------------------------------------

\* how many SceneController instances a run constructs
MaxScenes == 3

\* how many loop callbacks the browser is let to hold
MaxCallbacks == 2

\* how many keydown closures enableDebugHotkeys is let to create
MaxHandlers == 3

SceneIds == 1 .. MaxScenes

\* `null` where a scene is expected
NoScene == 0

\* a slot whose instance is not constructed yet
Unbuilt ==
  [impl |-> "none", name |-> "none", state |-> "none", elapsed |-> 0,
   hasRequestedSwitch |-> FALSE, emits |-> 0]

\* new BootScene(): elapsed = 0, hasRequestedSwitch = false, cube = null.
\* state is "new" before init, "initialized" while the cube exists,
\* "disposed" after dispose; emits counts the scene:switch events it sent
BootScene_new ==
  [impl |-> "BootScene", name |-> "BootScene", state |-> "new", elapsed |-> 0,
   hasRequestedSwitch |-> FALSE, emits |-> 0]

\* new DemoScene()
DemoScene_new ==
  [impl |-> "DemoScene", name |-> "DemoScene", state |-> "new", elapsed |-> 0,
   hasRequestedSwitch |-> FALSE, emits |-> 0]

\* some other implementation of the SceneController interface: its init and
\* dispose are free to call back into the manager
Controller_new ==
  [impl |-> "controller", name |-> "DemoScene", state |-> "new", elapsed |-> 0,
   hasRequestedSwitch |-> FALSE, emits |-> 0]

\* new SceneManager(save): ctx = null, current = null, pending = null,
\* initializedScenes empty; lastScene is the "lastScene" key of the save
SceneManager_new ==
  [ctx |-> FALSE, current |-> NoScene, pending |-> NoScene,
   initializedScenes |-> {}, lastScene |-> "none"]

\* no Engine: nothing subscribed to scene:switch, no loop
NoEngine == [present |-> FALSE, running |-> FALSE, callbacks |-> 0]

\* the fields of a new ControlSystem
ControlSystem_fields ==
  [enabled |-> TRUE, locks |-> [rotate |-> FALSE, zoom |-> FALSE],
   pointerActive |-> FALSE, pointerMode |-> "null",
   lastPointer |-> <<0, 0>>, rotateDelta |-> <<0, 0>>, dollyDelta |-> 0]

\* no pointer event seen, nothing unreported
NoPointer == [position |-> <<0, 0>>, rotate |-> <<0, 0>>, dolly |-> 0]

\* the event targets a listener can be attached to
Targets == {"window", "canvas"}

\* after new PresenceSystem() and enableDebugHotkeys(): one closure, on window
KeyTargets_enabled == [attached |-> {<<"window", 1>>}, handler |-> 1, made |-> 1]

\* DemoScene before init: this.clock = null
NoDemoClock == [clock |-> ClockSystem_fields, paint |-> <<>>, distance |-> 0]

\* nothing of the application is constructed around the core
AppIdle ==
  /\ sceneManager = SceneManager_new
  /\ scenes = [i \in SceneIds |-> Unbuilt]
  /\ engine = NoEngine
  /\ trace = <<>>
  /\ controls = ControlSystem_fields
  /\ pointer = NoPointer
  /\ keyTargets = KeyTargets_enabled
  /\ demoClock = NoDemoClock

\* ------------------------------------------------------------------
\* Actions
\* ------------------------------------------------------------------

\* the state after `new CoreSystem(deps)`: new ClockSystem(), then
\* new PresenceSystem() followed by enableDebugHotkeys()
Init ==
  /\ level = 0
  /\ gates = DefaultGates
  /\ debugKeyHandler = TRUE
  /\ clock = ClockSystem_fields
  /\ rings = ClockSystem_rings(DefaultClockConfig)
  /\ frame = NoFrame
  /\ lastOp = [op |-> "new"]
  /\ AppIdle

SetPresenceLevelFrom(inputs) ==
  \E v \in inputs :
    /\ level' = setPresenceLevel(v)
    /\ lastOp' = [op |-> "setPresenceLevel", arg |-> v]
    /\ UNCHANGED <<gates, debugKeyHandler, clockVars, appVars>>

NudgePresenceFrom(inputs) ==
  \E d \in inputs :
    /\ level' = nudgePresence(level, d)
    /\ lastOp' = [op |-> "nudgePresence", arg |-> d]
    /\ UNCHANGED <<gates, debugKeyHandler, clockVars, appVars>>

KeyDownFrom(keys, tags) ==
  \E key \in keys, tag \in tags :
    /\ debugKeyHandler
    /\ level' = debugKeyHandlerResult(level, key, tag)
    /\ lastOp' = [op |-> "keydown", arg |-> <<key, tag>>]
    /\ UNCHANGED <<gates, debugKeyHandler, clockVars, appVars>>

SetGatesConfigFrom(partials) ==
  \E partial \in partials :
    /\ gates' = setGatesConfig(gates, partial)
    /\ lastOp' = [op |-> "setGatesConfig", arg |-> DOMAIN partial]
    /\ UNCHANGED <<level, debugKeyHandler, clockVars, appVars>>

\* the world w becomes the state
Becomes(w) ==
  /\ level' = w.level
  /\ gates' = w.gates
  /\ clock' = w.clock
  /\ rings' = w.rings
  /\ frame' = w.frame

\* one frame: CoreSystem.update(dt) with the wall clock reading `now`
CoreUpdate ==
  \E now \in Times, dt \in DtInputs :
    /\ Becomes(CoreSystem_update(World, now, dt))
    /\ lastOp' = [op |-> "CoreSystem.update", arg |-> now]
    /\ UNCHANGED <<debugKeyHandler, appVars>>

\* ------------------------------------------------------------------
\* SpecPaint: RingPoints.updateFill on its own, one ring instance per run
\* ------------------------------------------------------------------

InitPaint ==
  /\ level = 0
  /\ gates = DefaultGates
  /\ debugKeyHandler = TRUE
  /\ clock = ClockSystem_fields
  /\ rings \in { ClockSystem_rings(config) : config \in PaintConfigs }
  /\ frame = NoFrame
  /\ lastOp = [op |-> "new"]
  /\ AppIdle

Unpainted(ring) == \A i \in DOMAIN ring.colors : ring.colors[i] = <<0, 0, 0>>

\* one call of updateFill on the ring under test; `dirty` records whether the
\* buffer held a colour before the call
PaintRing ==
  \E r \in Rings, head \in HeadInputs, scale \in ScaleInputs, p \in PaintPresenceInputs :
    /\ lastOp.op = "updateFill" => r = lastOp.arg.ring
    /\ \A q \in Rings \ {r} : Unpainted(rings[q])
    /\ rings' = [rings EXCEPT ![r].colors = updateFill(rings[r], head, scale, p, clock.colorMode)]
    /\ lastOp' = [op |-> "updateFill", arg |-> [ring |-> r, head |-> head, scale |-> scale,
                                                presence |-> p,
                                                dirty |-> ~Unpainted(rings[r])]]
    /\ UNCHANGED <<presenceVars, clock, frame, appVars>>

NextPaint == PaintRing

SpecPaint == InitPaint /\ [][NextPaint]_vars

\* ------------------------------------------------------------------
\* SpecPresence: the public interface of PresenceSystem on its own
\* ------------------------------------------------------------------

SetPresenceLevel == SetPresenceLevelFrom(LevelInputs)

NudgePresence == NudgePresenceFrom(DeltaInputs)

KeyDown == KeyDownFrom(Keys, Tags)

SetGatesConfig == SetGatesConfigFrom(Partials)

NextPresence == SetPresenceLevel \/ NudgePresence \/ KeyDown \/ SetGatesConfig

SpecPresence == Init /\ [][NextPresence]_vars

\* ------------------------------------------------------------------
\* Spec: frames of CoreSystem.update between presence changes
\* ------------------------------------------------------------------

\* the scene builds its core again: new CoreSystem({bus, config, save})
NewCoreSystem ==
  \E save \in SaveInputs :
    /\ Becomes(CoreSystem_new(save))
    /\ debugKeyHandler' = TRUE
    /\ lastOp' = [op |-> "new", arg |-> save]
    /\ UNCHANGED appVars

FrameSetPresenceLevel == SetPresenceLevelFrom({One \div 2, 2 * One})

FrameNudgePresence == NudgePresenceFrom({0 - One \div 4})

FrameKeyDown == KeyDownFrom({"\\", "'"}, {"body", "input"})

FrameSetGatesConfig == SetGatesConfigFrom({ScenarioGates})

Next ==
  \/ FrameSetPresenceLevel
  \/ FrameNudgePresence
  \/ FrameKeyDown
  \/ FrameSetGatesConfig
  \/ CoreUpdate
  \/ NewCoreSystem

Spec == Init /\ [][Next]_vars

\* ------------------------------------------------------------------
\* Properties of the frame (checked under Spec)
\* ------------------------------------------------------------------

\* the positions of a call in the latest frame
CallsOf(name) == { i \in DOMAIN frame.calls : frame.calls[i] = name }

\* C1: in every frame driven through CoreSystem.update, PresenceSystem.update
\* runs before ClockSystem.update, each exactly once, and the presence value
\* each ring is painted with is the stage value of the presence level and
\* gates as they stand at that frame.
ThmC1 ==
  lastOp.op = "CoreSystem.update" =>
    /\ Cardinality(CallsOf("PresenceSystem.update")) = 1
    /\ Cardinality(CallsOf("ClockSystem.update")) = 1
    /\ \A i \in CallsOf("PresenceSystem.update"), j \in CallsOf("ClockSystem.update") : i < j
    /\ \A r \in Rings :
          frame.paint[r].presence = getClockPresenceLevels(level, gates)[r]

\* a frame painted after the level was moved into the minute window of the
\* 10/10/10 timeline
WitC1 ==
  /\ lastOp.op = "CoreSystem.update"
  /\ gates = ScenarioGates
  /\ level = One \div 2
  /\ frame.paint.minute.presence = One \div 2

\* ------------------------------------------------------------------
\* Properties of the paint operation (checked under SpecPaint)
\* ------------------------------------------------------------------

\* C10: updateFill never writes a colour channel value outside [0,1], for any
\* head angle, any tail arc from the epsilon floor to the full circle and any
\* intensity scale.
ChannelsInUnit ==
  \A r \in Rings : \A i \in DOMAIN rings[r].colors : \A c \in 1..3 :
    LET v == rings[r].colors[i][c] IN v # NaN /\ 0 <= v /\ v <= One

\* ------------------------------------------------------------------
\* Properties of PresenceSystem (checked under SpecPresence)
\* ------------------------------------------------------------------

\* the stage values of the current state
Stages == getClockPresenceLevels(level, gates)

InUnit(x) == x # NaN /\ 0 <= x /\ x <= One

\* min(1, max(0, v)) written out
Min1Max0(v) == IF v < 0 THEN 0 ELSE IF v > One THEN One ELSE v

C2Step ==
  /\ lastOp'.op = "setPresenceLevel" => level' = Min1Max0(lastOp'.arg)
  /\ lastOp'.op = "nudgePresence" => level' = Min1Max0(level + lastOp'.arg)

\* C2: after any sequence of setPresenceLevel, nudgePresence and hotkey
\* events the level is in [0,1]; setPresenceLevel(v) leaves min(1, max(0, v))
\* and nudgePresence(delta) leaves min(1, max(0, level + delta)).
ThmC2 == [](InUnit(level)) /\ [][C2Step]_vars

\* a nudge above the range was clamped to 1
WitC2 == lastOp.op = "nudgePresence" /\ lastOp.arg = 3 * One /\ level = One

ProbeLevels == { k * HotkeyStep : k \in 0..20 }

\* C4: for a fixed gate configuration and p1 < p2, each stage value at p1
\* is at most the corresponding value at p2.
ThmC4 ==
  LET at == [p \in ProbeLevels \cup {level} |-> getClockPresenceLevels(p, gates)]
  IN  \A p1, p2 \in DOMAIN at :
        p1 < p2 => \A r \in Rings : at[p1][r] <= at[p2][r]

\* two levels inside the hour window with different hour values
WitC4 ==
  /\ lastOp.op = "setGatesConfig"
  /\ \E p \in ProbeLevels :
        /\ level < p
        /\ 0 < Stages.hour
        /\ Stages.hour < getClockPresenceLevels(p, gates).hour
        /\ getClockPresenceLevels(p, gates).hour < One

\* progressed lies in the minute window [hourFadeSeconds, hourFadeSeconds + minuteFadeSeconds)
InMinuteWindow ==
  LET progressed == Mul(One - level, gates.hourFadeSeconds + gates.minuteFadeSeconds
                                        + gates.secondFadeSeconds)
  IN  /\ gates.hourFadeSeconds <= progressed
      /\ progressed < gates.hourFadeSeconds + gates.minuteFadeSeconds

\* C5: when progressed = (1 - p) * total lies in the minute window, the hour
\* value is 0 and the second value is 1.
ThmC5 == InMinuteWindow => Stages.hour = 0 /\ Stages.second = One

\* the level is strictly inside the minute window
WitC5 == InMinuteWindow /\ 0 < Stages.minute /\ Stages.minute < One

\* progressed is exactly on the boundary between two windows
OnStageBoundary ==
  Progressed(level, gates) \in
    {gates.hourFadeSeconds, gates.hourFadeSeconds + gates.minuteFadeSeconds}

StageOrder == [hour |-> 1, minute |-> 2, second |-> 3]

ThmC7 ==
  /\ level = One => \A r \in Rings : Stages[r] = One
  /\ level = 0 => \A r \in Rings : Stages[r] = 0

\* level 1 on a reconfigured timeline
WitC7 == level = One /\ lastOp.op = "setGatesConfig" /\ gates # DefaultGates

\* the scenario's calls have been made: the gates are what
\* setGatesConfig(10/10/10/0) leaves and the last call was setPresenceLevel(0.5)
AfterScenario ==
  /\ gates = setGatesConfig(DefaultGates, ScenarioGates)
  /\ lastOp.op = "setPresenceLevel" /\ lastOp.arg = One \div 2

\* C8: after setGatesConfig(10, 10, 10, easePower 0) and setPresenceLevel(0.5)
\* the stage values are hour 0, minute 0.5, second 1.
ThmC8 ==
  AfterScenario =>
    /\ Stages.hour = 0
    /\ Stages.minute = One \div 2
    /\ Stages.second = One

WitC8 == AfterScenario /\ level = One \div 2

C9Step ==
  lastOp'.op = "setGatesConfig" =>
    \A f \in GateFields \ lastOp'.arg : gates'[f] = gates[f]

GatesClamped ==
  /\ gates.hourFadeSeconds > 0
  /\ gates.minuteFadeSeconds > 0
  /\ gates.secondFadeSeconds > 0
  /\ gates.easePower >= 0
  /\ \A f \in GateFields : gates[f] # NaN

ClockSetGlobalIntensityFrom(inputs) ==
  \E v \in inputs :
    /\ clock' = ClockSystem_setGlobalIntensity(clock, v)
    /\ lastOp' = [op |-> "ClockSystem.setGlobalIntensity", arg |-> v]
    /\ UNCHANGED <<presenceVars, rings, frame, appVars>>

ClockSetDistanceFactorFrom(inputs) ==
  \E v \in inputs :
    /\ clock' = ClockSystem_setDistanceFactor(clock, v)
    /\ lastOp' = [op |-> "ClockSystem.setDistanceFactor", arg |-> v]
    /\ UNCHANGED <<presenceVars, rings, frame, appVars>>

ClockSetAudioLevelsFrom(inputs) ==
  \E a \in inputs :
    /\ clock' = ClockSystem_setAudioLevels(clock, a[1], a[2], a[3])
    /\ lastOp' = [op |-> "ClockSystem.setAudioLevels", arg |-> a]
    /\ UNCHANGED <<presenceVars, rings, frame, appVars>>

ClockSetColorModeFrom(modes) ==
  \E mode \in modes :
    /\ clock' = ClockSystem_setColorMode(clock, mode)
    /\ lastOp' = [op |-> "ClockSystem.setColorMode", arg |-> mode]
    /\ UNCHANGED <<presenceVars, rings, frame, appVars>>

ClockSetPresenceLevelFrom(inputs) ==
  \E v \in inputs :
    /\ clock' = ClockSystem_setPresenceLevel(clock, v)
    /\ lastOp' = [op |-> "ClockSystem.setPresenceLevel", arg |-> v]
    /\ UNCHANGED <<presenceVars, rings, frame, appVars>>

ClockSetRingPresenceLevelsFrom(inputs) ==
  \E levels \in inputs :
    /\ clock' = ClockSystem_setRingPresenceLevels(clock, levels)
    /\ lastOp' = [op |-> "ClockSystem.setRingPresenceLevels", arg |-> levels]
    /\ UNCHANGED <<presenceVars, rings, frame, appVars>>

ClockClearRingPresenceOverrides ==
  /\ clock' = ClockSystem_clearRingPresenceOverrides(clock)
  /\ lastOp' = [op |-> "ClockSystem.clearRingPresenceOverrides"]
  /\ UNCHANGED <<presenceVars, rings, frame, appVars>>

\* the three rings rs become the state, with the arguments they were painted with
Painted(rs, args) ==
  /\ rings' = rs
  /\ frame' = [calls |-> <<"ClockSystem.update">>, paint |-> args]

\* clock.update(dt) called directly, as DemoScene does with its own ClockSystem
ClockUpdateFrom(times, dts) ==
  \E now \in times, dt \in dts :
    /\ Painted(ClockSystem_update(clock, rings, now, dt), PaintArgs(clock, now))
    /\ lastOp' = [op |-> "ClockSystem.update", arg |-> now, dt |-> dt]
    /\ UNCHANGED <<presenceVars, clock, appVars>>

\* ------------------------------------------------------------------
\* SpecNaN: the setters of ClockSystem called with NaN and out-of-range
\* arguments, then update
\* ------------------------------------------------------------------

\* setter arguments that are not numbers in range
AudioNaNInputs == {<<NaN, One \div 2, 2 * One>>}

RingLevelNaNInputs == {[hour |-> NaN, minute |-> One \div 2, second |-> 2 * One]}

NaNSetGlobalIntensity == ClockSetGlobalIntensityFrom({NaN})

NaNSetDistanceFactor == ClockSetDistanceFactorFrom({0 - One})

NaNSetAudioLevels == ClockSetAudioLevelsFrom(AudioNaNInputs)

NaNSetRingPresenceLevels == ClockSetRingPresenceLevelsFrom(RingLevelNaNInputs)

NaNUpdate == ClockUpdateFrom(Times, {16 * Thousand})

NextNaN ==
  \/ NaNSetGlobalIntensity
  \/ NaNSetDistanceFactor
  \/ NaNSetAudioLevels
  \/ NaNSetRingPresenceLevels
  \/ NaNUpdate

SpecNaN == Init /\ [][NextNaN]_vars

\* C11: whatever arguments the setters were called with, NaN included, every
\* value ClockSystem.update writes to a ring colour buffer is a number in [0,1].
BufferInUnitAfterSetters ==
  lastOp.op = "ClockSystem.update" =>
    \A r \in Rings : \A i \in DOMAIN rings[r].colors : \A c \in 1..3 :
      InUnit(rings[r].colors[i][c])

\* ------------------------------------------------------------------
\* SpecKnobs: the control knobs of ClockSystem with finite arguments
\* ------------------------------------------------------------------

\* arguments of setGlobalIntensity and setDistanceFactor: negative, above 1
KnobInputs == {0 - One, 2 * One}

\* arguments of setAudioLevels: below, inside and above [0, 1]
AudioInputs == {<<0 - One, One \div 2, 2 * One>>}

KnobsSetGlobalIntensity == ClockSetGlobalIntensityFrom(KnobInputs)

KnobsSetDistanceFactor == ClockSetDistanceFactorFrom(KnobInputs)

KnobsSetAudioLevels == ClockSetAudioLevelsFrom(AudioInputs)

KnobsUpdate == ClockUpdateFrom(Times, {16 * Thousand})

NextKnobs ==
  \/ KnobsSetGlobalIntensity
  \/ KnobsSetDistanceFactor
  \/ KnobsSetAudioLevels
  \/ KnobsUpdate

SpecKnobs == Init /\ [][NextKnobs]_vars

\* the audio level that boosts each ring
Band == [hour |-> clock.audioLow, minute |-> clock.audioMid, second |-> clock.audioHigh]

\* C16: after any sequence of setGlobalIntensity, setDistanceFactor and
\* setAudioLevels calls with finite arguments, globalIntensity >= 0,
\* distanceFactor >= 0 and each audio level is in [0,1]; the intensity scale
\* update hands to each ring's paint is globalIntensity * distanceFactor *
\* (1 + 0.6 * band), which is >= 0.
ThmC16 ==
  /\ Ge(clock.globalIntensity, 0)
  /\ Ge(clock.distanceFactor, 0)
  /\ \A r \in Rings : InUnit(Band[r])
  /\ lastOp.op = "ClockSystem.update" =>
       \A r \in Rings :
         /\ frame.paint[r].scale =
              Mul(Mul(clock.globalIntensity, clock.distanceFactor),
                  Add(One, Mul(Band[r], 600 * Thousand)))
         /\ Ge(frame.paint[r].scale, 0)

\* a frame painted after setGlobalIntensity(2) and setAudioLevels(-1, 0.5, 2):
\* the minute ring is painted with scale 2 * 1 * 1.3
WitC16 ==
  /\ lastOp.op = "ClockSystem.update"
  /\ clock.globalIntensity = 2 * One
  /\ clock.distanceFactor = One
  /\ clock.audioLow = 0 /\ clock.audioMid = One \div 2 /\ clock.audioHigh = One
  /\ frame.paint.minute.scale = 2600 * Thousand

\* ------------------------------------------------------------------
\* SpecScenario: a ClockSystem whose hour ring has four points and a tail
\* arc of half a turn
\* ------------------------------------------------------------------

InitScenario ==
  /\ level = 0
  /\ gates = DefaultGates
  /\ debugKeyHandler = TRUE
  /\ clock = ClockSystem_fields
  /\ rings = ClockSystem_rings(ScenarioClockConfig)
  /\ frame = NoFrame
  /\ lastOp = [op |-> "new"]
  /\ AppIdle

ScenarioSetGlobalIntensity == ClockSetGlobalIntensityFrom(KnobInputs)

ScenarioSetDistanceFactor == ClockSetDistanceFactorFrom({One \div 2})

ScenarioSetAudioLevels == ClockSetAudioLevelsFrom(AudioInputs)

ScenarioUpdate == ClockUpdateFrom(Times, {16 * Thousand})

NextScenario ==
  \/ ScenarioSetGlobalIntensity
  \/ ScenarioSetDistanceFactor
  \/ ScenarioSetAudioLevels
  \/ ScenarioUpdate

SpecScenario == InitScenario /\ [][NextScenario]_vars

\* the colour of a point of intensity x on the hour ring
HourShade(x) == [c \in 1..3 |-> Mul(rings.hour.baseColor[c], x)]

\* the hour ring was painted with head angle 0 and intensity scale 1
ScenarioPainted ==
  /\ lastOp.op = "ClockSystem.update"
  /\ frame.paint.hour.head = 0
  /\ frame.paint.hour.scale = One

\* C14: on a ring of 4 points (angles 0, pi/2, pi, 3pi/2) painted with head
\* angle 0, tail arc pi and intensity scale 1, the point at 0 has intensity 1,
\* the point at pi intensity 0, the point at 3pi/2 intensity 0.5 and the point
\* at pi/2 intensity 0.
ScenarioIntensities ==
  ScenarioPainted =>
    /\ rings.hour.colors[0] = HourShade(One)
    /\ rings.hour.colors[2] = HourShade(0)
    /\ rings.hour.colors[3] = HourShade(One \div 2)
    /\ rings.hour.colors[1] = HourShade(0)

\* a ring as the constructor leaves it: every colour zero
Fresh(ring) == [ring EXCEPT !.colors = [i \in DOMAIN ring.colors |-> <<0, 0, 0>>]]

\* ------------------------------------------------------------------
\* SpecMode: colour mode, presence level and per-ring overrides of
\* ClockSystem, with update called at varying dt
\* ------------------------------------------------------------------

\* the values of ClockColorMode
ColorModes == {"classic", "perRing", "rainbow", "vinyl"}

\* arguments of setRingPresenceLevels
RingLevelInputs == {[hour |-> 0, minute |-> One \div 2, second |-> One]}

ModeSetColorMode == ClockSetColorModeFrom(ColorModes)

ModeSetPresenceLevel == ClockSetPresenceLevelFrom({One \div 2})

ModeSetRingPresenceLevels == ClockSetRingPresenceLevelsFrom(RingLevelInputs)

ModeUpdate == ClockUpdateFrom(Times, DtInputs)

NextMode ==
  \/ ModeSetColorMode
  \/ ModeSetPresenceLevel
  \/ ModeSetRingPresenceLevels
  \/ ClockClearRingPresenceOverrides
  \/ ModeUpdate

SpecMode == Init /\ [][NextMode]_vars

\* C17: setColorMode has no observable effect: after every update the ring
\* colour buffers are the ones the same update paints with the mode "classic",
\* whichever mode was set.
ThmC17 ==
  lastOp.op = "ClockSystem.update" =>
    rings = ClockSystem_update(ClockSystem_setColorMode(clock, "classic"), rings,
                               lastOp.arg, lastOp.dt)

\* an update that lit the hour ring while the mode was "vinyl"
WitC17 ==
  /\ lastOp.op = "ClockSystem.update"
  /\ clock.colorMode = "vinyl"
  /\ rings.hour.colors[0][1] > 0

\* no per-ring override is installed
NoOverrides ==
  /\ clock.hourPresence = Null
  /\ clock.minutePresence = Null
  /\ clock.secondPresence = Null

\* C18: clearRingPresenceOverrides removes the overrides, and an update made
\* while none is installed paints each ring with the stage value the staged
\* three-window derivation gives for the current presence level.
ClearedPaintsStaged ==
  /\ lastOp.op = "ClockSystem.clearRingPresenceOverrides" => NoOverrides
  /\ (lastOp.op = "ClockSystem.update" /\ NoOverrides) =>
       \A r \in Rings :
         frame.paint[r].presence = getClockPresenceLevels(clock.presenceLevel, gates)[r]

\* the rings as their constructor leaves them
FreshRings == [r \in Rings |-> Fresh(rings[r])]

\* C20: the head angles and colour buffers of an update depend only on the
\* wall-clock reading of that call and the current settings: not on dt, nor
\* on how many updates came before or what they painted.
ThmC20 ==
  lastOp.op = "ClockSystem.update" =>
    /\ \A r \in Rings : frame.paint[r].head = HeadAngles(lastOp.arg)[r]
    /\ rings = ClockSystem_update(clock, FreshRings, lastOp.arg, 0)

\* an update at 15:30:45.500 after a pause of five seconds, with the
\* presence level raised to 0.5 since construction
WitC20 ==
  /\ lastOp.op = "ClockSystem.update"
  /\ lastOp.dt = 5 * One
  /\ lastOp.arg.hours = 15
  /\ clock.presenceLevel = One \div 2
  /\ \E i \in DOMAIN rings.second.colors : rings.second.colors[i][1] > 0

\* ------------------------------------------------------------------
\* More properties of the frame (checked under Spec)
\* ------------------------------------------------------------------

\* a frame leaves the presence level and the gates as they were
FrameKeepsPresence ==
  lastOp'.op = "CoreSystem.update" => (level' = level /\ gates' = gates)

\* a step that changes the level or the gates is a setter call, a hotkey
\* (which calls a setter) or the construction of a new PresenceSystem
OnlySettersChangePresence ==
  (level' # level \/ gates' # gates) =>
    lastOp'.op \in {"setPresenceLevel", "nudgePresence", "setGatesConfig", "keydown", "new"}

\* a PresenceSystem starts at level 0 with the default gates
ConstructedAtDefault == lastOp.op = "new" => (level = 0 /\ gates = DefaultGates)

\* C19: the presence level and the gate configuration change only through the
\* explicit setters: a frame (PresenceSystem.update, ClockSystem.update and
\* the three paint calls) leaves them unchanged, and a newly constructed
\* PresenceSystem starts at the same default level whatever the saved data.
ThmC19 ==
  /\ [](ConstructedAtDefault)
  /\ [][FrameKeepsPresence /\ OnlySettersChangePresence]_vars

\* a frame painted after the level was snapped to 1: the level is still 1
WitC19 ==
  /\ lastOp.op = "CoreSystem.update"
  /\ level = One
  /\ gates = DefaultGates
  /\ Cardinality(CallsOf("PresenceSystem.update")) = 1
  /\ \E i \in DOMAIN rings.second.colors : rings.second.colors[i][1] > 0

\* ------------------------------------------------------------------
\* More properties of the paint operation (checked under SpecPaint)
\* ------------------------------------------------------------------

\* the ring the latest updateFill call painted
PaintedRing == rings[lastOp.arg.ring]

\* the points of the painted ring that sit exactly at the normalised head
HeadPoints ==
  { i \in DOMAIN PaintedRing.angles : PaintedRing.angles[i] = NormalizedHead(lastOp.arg.head) }

\* C12: in every paint call a point whose angle equals the normalised head
\* angle receives the maximum intensity of the call: its channels are numbers
\* and no point of the ring has a greater channel value.
ThmC12 ==
  lastOp.op = "updateFill" =>
    \A h \in HeadPoints : \A c \in 1..3 :
      /\ PaintedRing.colors[h][c] # NaN
      /\ \A j \in DOMAIN PaintedRing.colors :
           ~Gt(PaintedRing.colors[j][c], PaintedRing.colors[h][c])

\* the second ring painted with the head on point 15 (half a turn) and a tail
\* that reaches point 14, which is lit but dimmer than the head
WitC12 ==
  /\ lastOp.op = "updateFill"
  /\ lastOp.arg.ring = "second"
  /\ 15 \in HeadPoints
  /\ PaintedRing.colors[14][1] > 0
  /\ PaintedRing.colors[14][1] < PaintedRing.colors[15][1]

\* the buffer is the one the latest call paints on a fresh ring
BufferFromArguments ==
  lastOp.op = "updateFill" =>
    PaintedRing.colors =
      updateFill(Fresh(PaintedRing), lastOp.arg.head, lastOp.arg.scale,
                 lastOp.arg.presence, clock.colorMode)

\* a call that repeats the arguments of the call before it
RepeatedPaint ==
  /\ lastOp.op = "updateFill"
  /\ lastOp'.op = "updateFill"
  /\ lastOp'.arg.ring = lastOp.arg.ring
  /\ lastOp'.arg.head = lastOp.arg.head
  /\ lastOp'.arg.scale = lastOp.arg.scale
  /\ lastOp'.arg.presence = lastOp.arg.presence

\* C13: the buffer after a paint call is determined by the arguments of that
\* call alone, whatever earlier calls left in it; a call repeated with the same
\* arguments leaves the same buffer, and no point outside the lit arc keeps an
\* earlier colour.
ThmC13 == [](BufferFromArguments) /\ [][RepeatedPaint => rings' = rings]_vars

\* a buffer that held colour before the call and is all dark after it
WitC13 ==
  /\ lastOp.op = "updateFill"
  /\ lastOp.arg.dirty
  /\ Unpainted(PaintedRing)

\* C15: for every ring configuration and presence value the tail arc that
\* divides deltaBack is at least the 1e-4 floor, and a paint call with a
\* negative intensity scale writes 0 to every channel.
DegenerateInputsDegrade ==
  /\ \A r \in Rings, p \in PaintPresenceInputs : Ge(TailArc(rings[r], p), ArcFloor)
  /\ (lastOp.op = "updateFill" /\ lastOp.arg.scale < 0) => Unpainted(PaintedRing)

\* ------------------------------------------------------------------
\* SceneManager, the scenes and the Engine loop
\* ------------------------------------------------------------------

\* the BootScene threshold, 3.0 seconds
BootSeconds == 3 * One

\* BootScene.elapsed is followed up to here
ElapsedCap == 5 * One

\* an Engine configuration clamping a frame at one second, so that the three
\* seconds of BootScene are a handful of frames (createDefaultConfig clamps
\* at 1/15 s)
EngineConfig == [maxDeltaTime |-> One]

\* (now - lastTime) / 1000 of a frame: below and above the clamp
DtRawInputs == {One \div 2, 2 * One}

\* the delta of a direct SceneManager.update call
DeltaInputs2 == {One \div 2, One}

\* the names a scene:switch event carries; "TitleScene" has no factory
SwitchNames == {"BootScene", "DemoScene", "TitleScene"}

\* the part of the state the scene operations work on; overflow is raised
\* when resolveScene would need an instance beyond MaxScenes
ScenesWorld ==
  [sm |-> sceneManager, scenes |-> scenes, trace |-> <<>>, engine |-> engine,
   overflow |-> FALSE]

\* a callback of scene s is entered: the trace keeps the call and the state
\* the scene was in
Logged(w, call, s) ==
  [w EXCEPT !.trace = Append(@, [call |-> call, scene |-> s, was |-> w.scenes[s].state])]

\* requestScene(next)
SceneManager_requestScene(w, next) == [w EXCEPT !.sm.pending = next]

\* what init or dispose of scene s does beside its own work: a controller
\* other than BootScene and DemoScene may ask the manager for scene req,
\* which the trace keeps as a "request"
Callback(w, s, req) ==
  IF w.scenes[s].impl = "controller" /\ req # NoScene
  THEN SceneManager_requestScene(Logged(w, "request", req), req)
  ELSE w

\* scene.init(ctx)
Scene_init(w, s, req) ==
  Callback([Logged(w, "init", s) EXCEPT !.scenes[s].state = "initialized"], s, req)

\* scene.dispose()
Scene_dispose(w, s, req) ==
  Callback([Logged(w, "dispose", s) EXCEPT !.scenes[s].state = "disposed"], s, req)

\* the first slot without an instance, NoScene if all are taken
FreeId(ss) ==
  IF \E i \in SceneIds : ss[i].impl = "none"
  THEN CHOOSE i \in SceneIds :
         ss[i].impl = "none" /\ \A j \in 1 .. (i - 1) : ss[j].impl # "none"
  ELSE NoScene

\* sceneFactories[name]()
Scene_new(name) == IF name = "BootScene" THEN BootScene_new ELSE DemoScene_new

\* bus.emit("scene:switch", {name}): the Engine's handler, if an Engine has
\* subscribed, resolves the name to a new instance and requests it
Engine_onSceneSwitch(w, name) ==
  LET id == FreeId(w.scenes)
  IN  IF ~w.engine.present THEN w
      ELSE IF name \notin {"BootScene", "DemoScene"} THEN w
      ELSE IF id = NoScene THEN [w EXCEPT !.overflow = TRUE]
      ELSE SceneManager_requestScene([w EXCEPT !.scenes[id] = Scene_new(name)], id)

\* BootScene.update without its hasRequestedSwitch latch
BootScene_updateNoLatch(w, s, delta) ==
  IF w.scenes[s].state # "initialized" THEN w
  ELSE LET u == [w EXCEPT !.scenes[s].elapsed = @ + delta]
       IN  IF u.scenes[s].elapsed > BootSeconds
           THEN Engine_onSceneSwitch(
                  Logged([u EXCEPT !.scenes[s].emits = @ + 1], "emit", s),
                  "DemoScene")
           ELSE u

\* BootScene.update(delta); the cube exists exactly while the scene is
\* initialized, and init has then set this.ctx
BootScene_update(w, s, delta) ==
  IF w.scenes[s].state # "initialized" THEN w
  ELSE LET u == [w EXCEPT !.scenes[s].elapsed = @ + delta]
       IN  IF ~u.scenes[s].hasRequestedSwitch /\ u.scenes[s].elapsed > BootSeconds
           THEN Engine_onSceneSwitch(
                  Logged([u EXCEPT !.scenes[s].hasRequestedSwitch = TRUE,
                                   !.scenes[s].emits = @ + 1], "emit", s),
                  "DemoScene")
           ELSE u

\* scene.update(delta)
Scene_update(w, s, delta) ==
  IF w.scenes[s].impl = "BootScene"
  THEN BootScene_update(Logged(w, "update", s), s, delta)
  ELSE Logged(w, "update", s)

\* switchSceneImmediately leaving the outgoing scene in initializedScenes
SceneManager_switchSceneImmediatelyKeep(w, next, reqD, reqI) ==
  IF ~w.sm.ctx THEN w
  ELSE LET a == IF w.sm.current # NoScene
                THEN Scene_dispose(w, w.sm.current, reqD)
                ELSE w
           b == [a EXCEPT !.sm.current = next]
           c == IF next \notin b.sm.initializedScenes
                THEN [Scene_init(b, next, reqI) EXCEPT !.sm.initializedScenes = @ \cup {next}]
                ELSE b
       IN  [c EXCEPT !.sm.lastScene = c.scenes[next].name]

\* switchSceneImmediately(next); reqD and reqI are the scenes that the
\* outgoing dispose and the incoming init ask for (NoScene: none)
SceneManager_switchSceneImmediately(w, next, reqD, reqI) ==
  IF ~w.sm.ctx THEN w
  ELSE LET a == IF w.sm.current # NoScene
                THEN [Scene_dispose(w, w.sm.current, reqD)
                        EXCEPT !.sm.initializedScenes = @ \ {w.sm.current}]
                ELSE w
           b == [a EXCEPT !.sm.current = next]
           c == IF next \notin b.sm.initializedScenes
                THEN [Scene_init(b, next, reqI) EXCEPT !.sm.initializedScenes = @ \cup {next}]
                ELSE b
       IN  [c EXCEPT !.sm.lastScene = c.scenes[next].name]

\* SceneManager.update updating the current scene before it switches
SceneManager_updateLate(w, delta, reqD, reqI) ==
  IF ~w.sm.ctx THEN w
  ELSE LET a == IF w.sm.current # NoScene
                THEN Scene_update(w, w.sm.current, delta)
                ELSE w
       IN  IF w.sm.pending # NoScene
           THEN [SceneManager_switchSceneImmediately(a, w.sm.pending, reqD, reqI)
                   EXCEPT !.sm.pending = NoScene]
           ELSE a

\* SceneManager.update(delta)
SceneManager_update(w, delta, reqD, reqI) ==
  IF ~w.sm.ctx THEN w
  ELSE LET a == IF w.sm.pending # NoScene
                THEN [SceneManager_switchSceneImmediately(w, w.sm.pending, reqD, reqI)
                        EXCEPT !.sm.pending = NoScene]
                ELSE w
       IN  IF a.sm.current # NoScene
           THEN Scene_update(a, a.sm.current, delta)
           ELSE a

\* Engine.start()
Engine_start(w) ==
  IF w.engine.running THEN w
  ELSE [w EXCEPT !.engine.running = TRUE, !.engine.callbacks = @ + 1]

\* Engine.stop()
Engine_stop(w) == [w EXCEPT !.engine.running = FALSE]

\* Engine.loop(now), dtRaw being (now - lastTime) / 1000
Engine_loop(w, dtRaw) ==
  IF ~w.engine.running THEN w
  ELSE [SceneManager_update(w, MathMin(dtRaw, EngineConfig.maxDeltaTime), NoScene, NoScene)
          EXCEPT !.engine.callbacks = @ + 1]

\* the browser runs the n callbacks it holds for this frame, all with the
\* same timestamp: the first sees dtRaw, the later ones see lastTime = now
RECURSIVE Engine_frame(_, _, _)
Engine_frame(w, n, dtRaw) ==
  IF n = 0 THEN w ELSE Engine_frame(Engine_loop(w, dtRaw), n - 1, 0)

\* new Engine(deps): attachContext, switchSceneImmediately(initialSceneFactory()),
\* then the scene:switch subscription
Engine_new(initialName) ==
  LET w  == [sm |-> [SceneManager_new EXCEPT !.ctx = TRUE],
             scenes |-> [i \in SceneIds |-> IF i = 1 THEN Scene_new(initialName) ELSE Unbuilt],
             trace |-> <<>>, engine |-> NoEngine, overflow |-> FALSE]
  IN  [SceneManager_switchSceneImmediately(w, 1, NoScene, NoScene)
         EXCEPT !.engine.present = TRUE]

\* a SceneManager on its own, with a BootScene, a DemoScene and one other
\* controller for its caller to pass in
Manager_new ==
  [sm |-> SceneManager_new,
   scenes |-> [i \in SceneIds |-> IF i = 1 THEN BootScene_new
                                  ELSE IF i = 2 THEN DemoScene_new
                                  ELSE IF i = 3 THEN Controller_new
                                  ELSE Unbuilt],
   trace |-> <<>>, engine |-> NoEngine, overflow |-> FALSE]

Built == {s \in SceneIds : scenes[s].impl # "none"}

InitScenes ==
  /\ level = 0
  /\ gates = DefaultGates
  /\ debugKeyHandler = TRUE
  /\ clock = ClockSystem_fields
  /\ rings = ClockSystem_rings(DefaultClockConfig)
  /\ frame = NoFrame
  /\ controls = ControlSystem_fields
  /\ pointer = NoPointer
  /\ keyTargets = KeyTargets_enabled
  /\ demoClock = NoDemoClock
  /\ \E w \in {Manager_new} \cup {Engine_new(n) : n \in {"BootScene", "DemoScene"}} :
       /\ sceneManager = w.sm
       /\ scenes = w.scenes
       /\ engine = w.engine
       /\ trace = w.trace
       /\ lastOp = [op |-> "new", arg |-> w.engine.present]

\* the world w becomes the state of the scenes
ScenesBecome(w) ==
  /\ ~w.overflow
  /\ \A s \in SceneIds : w.scenes[s].elapsed <= ElapsedCap
  /\ w.engine.callbacks <= MaxCallbacks
  /\ sceneManager' = w.sm
  /\ scenes' = w.scenes
  /\ engine' = w.engine
  /\ trace' = w.trace
  /\ UNCHANGED <<presenceVars, clockVars, controls, pointer, keyTargets, demoClock>>

AttachContext ==
  /\ ~engine.present
  /\ ScenesBecome([ScenesWorld EXCEPT !.sm.ctx = TRUE])
  /\ lastOp' = [op |-> "attachContext", arg |-> NoScene]

RequestScene ==
  \E next \in Built :
    /\ ~engine.present
    /\ ScenesBecome(SceneManager_requestScene(ScenesWorld, next))
    /\ lastOp' = [op |-> "requestScene", arg |-> next]

SwitchSceneImmediately ==
  \E next \in Built, reqD \in Built \cup {NoScene}, reqI \in Built \cup {NoScene} :
    /\ ~engine.present
    /\ ScenesBecome(SceneManager_switchSceneImmediately(ScenesWorld, next, reqD, reqI))
    /\ lastOp' = [op |-> "switchSceneImmediately", arg |-> next]

Update ==
  \E delta \in DeltaInputs2, reqD \in Built \cup {NoScene}, reqI \in Built \cup {NoScene} :
    /\ ~engine.present
    /\ ScenesBecome(SceneManager_update(ScenesWorld, delta, reqD, reqI))
    /\ lastOp' = [op |-> "update", arg |-> delta]

EngineStart ==
  /\ engine.present
  /\ ScenesBecome(Engine_start(ScenesWorld))
  /\ lastOp' = [op |-> "Engine.start", arg |-> NoScene]

EngineStop ==
  /\ engine.present
  /\ ScenesBecome(Engine_stop(ScenesWorld))
  /\ lastOp' = [op |-> "Engine.stop", arg |-> NoScene]

\* one animation frame of the browser
AnimationFrame ==
  \E dtRaw \in DtRawInputs :
    /\ engine.present
    /\ engine.callbacks > 0
    /\ ScenesBecome(Engine_frame([ScenesWorld EXCEPT !.engine.callbacks = 0],
                                 engine.callbacks, dtRaw))
    /\ lastOp' = [op |-> "frame", arg |-> engine.callbacks]

\* the dev keys "1" and "2" of entry.ts, or any other emitter on the bus
EmitSceneSwitch ==
  \E name \in SwitchNames :
    /\ engine.present
    /\ ScenesBecome(Engine_onSceneSwitch(ScenesWorld, name))
    /\ lastOp' = [op |-> "scene:switch", arg |-> name]

NextScenes ==
  \/ AttachContext
  \/ RequestScene
  \/ SwitchSceneImmediately
  \/ Update
  \/ EngineStart
  \/ EngineStop
  \/ AnimationFrame
  \/ EmitSceneSwitch

SpecScenes == InitScenes /\ [][NextScenes]_vars

\* ------------------------------------------------------------------
\* Properties of scene switching (checked under SpecScenes)
\* ------------------------------------------------------------------

\* the step is a requestScene: the direct call, or the Engine's handler of
\* a scene:switch event
RequestStep == lastOp'.op \in {"requestScene", "scene:switch"}

\* the step calls SceneManager.update: the direct call, or a frame of a
\* running Engine
UpdateStep == lastOp'.op = "update" \/ (lastOp'.op = "frame" /\ engine.running)

\* a request changes nothing but the pending slot: the current scene and
\* every constructed scene stay as they are, and no callback runs
RequestOnlyQueues ==
  RequestStep =>
    /\ sceneManager'.current = sceneManager.current
    /\ sceneManager'.initializedScenes = sceneManager.initializedScenes
    /\ trace' = <<>>
    /\ \A s \in Built : scenes'[s] = scenes[s]
    /\ lastOp'.op = "requestScene" => sceneManager'.pending = lastOp'.arg
    /\ (lastOp'.op = "scene:switch" /\ lastOp'.arg \in {"BootScene", "DemoScene"}) =>
         /\ sceneManager'.pending \notin Built
         /\ scenes'[sceneManager'.pending] = Scene_new(lastOp'.arg)

\* the update made scene p current before any update callback of the tick,
\* and emptied the pending slot
SwitchedFirst(p) ==
  /\ sceneManager'.current = p
  /\ sceneManager'.pending = NoScene
  /\ \A i \in DOMAIN trace' :
       trace'[i].call = "update" =>
         /\ trace'[i].scene = p
         /\ \E j \in 1 .. (i - 1) : trace'[j].call = "init" /\ trace'[j].scene = p

Calls(t, call, s) == Cardinality({i \in DOMAIN t : t[i].call = call /\ t[i].scene = s})

\* the step activates a scene: switchSceneImmediately, or an update with a
\* pending scene, with a context attached
Activates(next) ==
  /\ sceneManager.ctx
  /\ \/ lastOp'.op = "switchSceneImmediately" /\ lastOp'.arg = next
     \/ UpdateStep /\ sceneManager.pending = next

Boots == {s \in SceneIds : scenes[s].impl = "BootScene"}

\* the step emitted scene:switch from scene s
Emitted(s) == scenes'[s].emits # scenes[s].emits

\* C23: a BootScene emits scene:switch exactly on the update that takes its
\* elapsed time past 3.0, once in its life; under an Engine the event puts a
\* new DemoScene in the pending slot, the following update makes the pending
\* scene current, and an update then leaves the DemoScene current with
\* nothing pending
ThmC23 ==
  [][ /\ \A s \in Boots :
           /\ scenes'[s].emits <= 1
           /\ Emitted(s) <=>
                /\ UpdateStep
                /\ scenes[s].elapsed <= BootSeconds
                /\ scenes'[s].elapsed > BootSeconds
           /\ Emitted(s) =>
                /\ \E i \in DOMAIN trace' : trace'[i] = [call |-> "emit", scene |-> s, was |-> "initialized"]
                /\ engine.present =>
                     \E d \in SceneIds \ Built :
                       /\ scenes'[d].name = "DemoScene"
                       /\ d \in {sceneManager'.pending, sceneManager'.current}
      /\ (UpdateStep /\ sceneManager.ctx /\ sceneManager.pending # NoScene) =>
           sceneManager'.current = sceneManager.pending
      /\ (UpdateStep /\ sceneManager.pending = NoScene /\ sceneManager.current # NoScene
            /\ scenes[sceneManager.current].impl = "DemoScene") =>
           /\ sceneManager'.current = sceneManager.current
           /\ sceneManager'.pending = NoScene ]_vars

\* under an Engine a BootScene has sent its event and the DemoScene made
\* for it is the current scene
WitC23 ==
  /\ engine.present
  /\ lastOp.op = "frame"
  /\ sceneManager.current # NoScene
  /\ scenes[sceneManager.current].impl = "DemoScene"
  /\ scenes[sceneManager.current].state = "initialized"
  /\ \E s \in Boots : scenes[s].emits = 1 /\ scenes[s].state = "disposed"

\* C26: the browser never holds more than one Engine.loop callback,
\* whatever the order of start(), stop() and frames
AtMostOneLoopPending == engine.callbacks <= 1

\* C27: a scene that a callback asked for during the latest operation is
\* still the pending one when the operation returns
RequestedStaysPending ==
  \A i \in DOMAIN trace :
    (trace[i].call = "request" /\ \A j \in (i + 1) .. Len(trace) : trace[j].call # "request") =>
      sceneManager.pending = trace[i].scene

\* ------------------------------------------------------------------
\* ControlSystem: pointer and wheel input accumulated between snapshots
\* ------------------------------------------------------------------

\* clientX / clientY of the pointer events (whole pixels), one pointer
Positions == {<<0, 0>>, <<10, 5>>, <<20, 5>>}

\* ev.button: the left button and another one
Buttons == {0, 2}

\* ev.deltaY of the wheel events
WheelInputs == {0 - 100, 100}

\* the partial objects passed to setLocks
LockPartials ==
  {[rotate |-> TRUE], [rotate |-> FALSE], [zoom |-> TRUE], [zoom |-> FALSE]}

\* the accumulated deltas are followed up to these magnitudes
MaxRotate == 20

MaxDolly == 100

VAdd(a, b) == <<a[1] + b[1], a[2] + b[2]>>

VSub(a, b) == <<a[1] - b[1], a[2] - b[2]>>

\* setEnabled(enabled), also the handler of controls:set-enabled
ControlSystem_setEnabled(c, enabled) == [c EXCEPT !.enabled = enabled]

\* setLocks(partial): { ...this.locks, ...partial }
ControlSystem_setLocks(c, partial) ==
  [c EXCEPT !.locks = [k \in {"rotate", "zoom"} |->
                         IF k \in DOMAIN partial THEN partial[k] ELSE c.locks[k]]]

\* consumeSnapshot handing out the deltas without resetting them
ControlSystem_consumeSnapshotKeep(c) ==
  [snapshot |-> [rotateDelta |-> c.rotateDelta, dollyDelta |-> c.dollyDelta],
   controls |-> c]

\* consumeSnapshot(): the snapshot returned and the fields after the call
ControlSystem_consumeSnapshot(c) ==
  [snapshot |-> [rotateDelta |-> c.rotateDelta, dollyDelta |-> c.dollyDelta],
   controls |-> [c EXCEPT !.rotateDelta = <<0, 0>>, !.dollyDelta = 0]]

\* handlePointerDown(ev)
ControlSystem_handlePointerDown(c, button, pos) ==
  IF ~c.enabled THEN c
  ELSE IF button # 0 THEN c
  ELSE [c EXCEPT !.pointerActive = TRUE, !.pointerMode = "rotate", !.lastPointer = pos]

\* handlePointerMove(ev)
ControlSystem_handlePointerMove(c, pos) ==
  IF ~c.enabled \/ ~c.pointerActive THEN c
  ELSE IF c.pointerMode # "rotate" \/ c.locks.rotate THEN c
  ELSE [c EXCEPT !.rotateDelta = VAdd(@, VSub(pos, c.lastPointer)),
                 !.lastPointer = pos]

\* handlePointerUp(ev)
ControlSystem_handlePointerUp(c) ==
  IF ~c.pointerActive THEN c
  ELSE [c EXCEPT !.pointerActive = FALSE, !.pointerMode = "null"]

\* handleWheel(ev)
ControlSystem_handleWheel(c, deltaY) ==
  IF ~c.enabled \/ c.locks.zoom THEN c
  ELSE [c EXCEPT !.dollyDelta = @ + deltaY]

\* the state after `new ControlSystem(deps)`, the pointer resting at the origin
InitControls ==
  /\ level = 0
  /\ gates = DefaultGates
  /\ debugKeyHandler = TRUE
  /\ clock = ClockSystem_fields
  /\ rings = ClockSystem_rings(DefaultClockConfig)
  /\ frame = NoFrame
  /\ AppIdle
  /\ lastOp = [op |-> "new", arg |-> 0]

\* the fields become c and the unreported deltas become (rotate, dolly),
\* within the magnitudes followed
ControlsBecome(c, seen, rotate, dolly) ==
  /\ Abs(c.rotateDelta[1]) <= MaxRotate
  /\ Abs(c.rotateDelta[2]) <= MaxRotate
  /\ Abs(c.dollyDelta) <= MaxDolly
  /\ controls' = c
  /\ pointer' = [position |-> seen, rotate |-> rotate, dolly |-> dolly]
  /\ UNCHANGED <<presenceVars, clockVars, sceneManager, scenes, engine, trace,
                 keyTargets, demoClock>>

SetEnabled ==
  \E enabled \in BOOLEAN :
    /\ ControlsBecome(ControlSystem_setEnabled(controls, enabled),
                      pointer.position, pointer.rotate, pointer.dolly)
    /\ lastOp' = [op |-> "setEnabled", arg |-> enabled]

SetLocks ==
  \E partial \in LockPartials :
    /\ ControlsBecome(ControlSystem_setLocks(controls, partial),
                      pointer.position, pointer.rotate, pointer.dolly)
    /\ lastOp' = [op |-> "setLocks", arg |-> partial]

\* the snapshot is handed to the caller: it is no longer unreported
ConsumeSnapshot ==
  LET r == ControlSystem_consumeSnapshot(controls)
  IN  /\ ControlsBecome(r.controls, pointer.position,
                        VSub(pointer.rotate, r.snapshot.rotateDelta),
                        pointer.dolly - r.snapshot.dollyDelta)
      /\ lastOp' = [op |-> "consumeSnapshot", arg |-> r.snapshot]

\* a button goes down where the pointer is
PointerDown ==
  \E button \in Buttons :
    /\ ControlsBecome(ControlSystem_handlePointerDown(controls, button, pointer.position),
                      pointer.position, pointer.rotate, pointer.dolly)
    /\ lastOp' = [op |-> "pointerdown", arg |-> button]

\* the pointer moves to pos; the move counts as accepted when the system is
\* enabled, a pointer is down and rotation is not locked
PointerMove ==
  \E pos \in Positions :
    /\ ControlsBecome(ControlSystem_handlePointerMove(controls, pos), pos,
                      IF controls.enabled /\ controls.pointerActive /\ ~controls.locks.rotate
                      THEN VAdd(pointer.rotate, VSub(pos, controls.lastPointer))
                      ELSE pointer.rotate,
                      pointer.dolly)
    /\ lastOp' = [op |-> "pointermove", arg |-> pos]

PointerUp ==
  /\ ControlsBecome(ControlSystem_handlePointerUp(controls),
                    pointer.position, pointer.rotate, pointer.dolly)
  /\ lastOp' = [op |-> "pointerup", arg |-> 0]

\* a wheel event counts as accepted when the system is enabled and zoom is
\* not locked
Wheel ==
  \E deltaY \in WheelInputs :
    /\ ControlsBecome(ControlSystem_handleWheel(controls, deltaY), pointer.position,
                      pointer.rotate,
                      IF controls.enabled /\ ~controls.locks.zoom
                      THEN pointer.dolly + deltaY
                      ELSE pointer.dolly)
    /\ lastOp' = [op |-> "wheel", arg |-> deltaY]

NextControls ==
  \/ SetEnabled
  \/ SetLocks
  \/ ConsumeSnapshot
  \/ PointerDown
  \/ PointerMove
  \/ PointerUp
  \/ Wheel

SpecControls == InitControls /\ [][NextControls]_vars

\* C24: the deltas held are exactly the accepted ones not yet reported;
\* consumeSnapshot returns them and resets them, so that a second
\* consumeSnapshot in a row returns zero; a wheel event while disabled or
\* zoom-locked, and a pointer move while disabled or with no pointer down,
\* change nothing
ThmC24 ==
  [][ /\ controls'.rotateDelta = pointer'.rotate
      /\ controls'.dollyDelta = pointer'.dolly
      /\ lastOp'.op = "consumeSnapshot" =>
           /\ lastOp'.arg = [rotateDelta |-> controls.rotateDelta,
                             dollyDelta |-> controls.dollyDelta]
           /\ controls'.rotateDelta = <<0, 0>>
           /\ controls'.dollyDelta = 0
           /\ lastOp.op = "consumeSnapshot" =>
                lastOp'.arg = [rotateDelta |-> <<0, 0>>, dollyDelta |-> 0]
      /\ (lastOp'.op = "wheel" /\ (~controls.enabled \/ controls.locks.zoom)) =>
           controls' = controls
      /\ (lastOp'.op = "pointermove" /\ (~controls.enabled \/ ~controls.pointerActive)) =>
           controls' = controls ]_vars

\* a snapshot has just reported a drag and a wheel turn
WitC24 ==
  /\ lastOp.op = "consumeSnapshot"
  /\ lastOp.arg.rotateDelta # <<0, 0>>
  /\ lastOp.arg.dollyDelta # 0
  /\ controls.rotateDelta = <<0, 0>>
  /\ controls.dollyDelta = 0

\* C28: a pointer move that is accepted adds the movement since the pointer
\* was last seen, so nothing of what it travelled while moves were rejected
\* (rotation locked, system disabled) enters a later snapshot
LockedMovementDiscarded ==
  [][ (lastOp'.op = "pointermove" /\ controls'.rotateDelta # controls.rotateDelta) =>
        controls'.rotateDelta = VAdd(controls.rotateDelta, VSub(lastOp'.arg, pointer.position)) ]_vars

\* ------------------------------------------------------------------
\* DemoScene: the CoreSystem with its own clock, and the scene's clock
\* ------------------------------------------------------------------

\* camera.position.length() of a frame: inside minDist, between, beyond maxDist
DistanceInputs == {4 * One, 23 * One, 60 * One}

\* the delta of a DemoScene.update
DemoDeltaInputs == {16 * Thousand}

\* the brightness factor DemoScene.update derives from the camera distance
DemoScene_distanceFactor(distance) ==
  LET minDist == 6 * One
      maxDist == 40 * One
      t == Clamp(Div(Sub(distance, minDist), Sub(maxDist, minDist)), 0, One)
  IN  Lerp(1200 * Thousand, 350 * Thousand, t)

\* buildCoreAndClock: this.clock = new ClockSystem({}), setGlobalIntensity(0.9)
DemoScene_buildClock ==
  [clock |-> ClockSystem_setGlobalIntensity(ClockSystem_fields, 900 * Thousand),
   paint |-> <<>>, distance |-> 0]

\* the second half of DemoScene.update: this.clock.setDistanceFactor(...),
\* this.clock.update(delta); paint holds what each ring is painted with
DemoScene_updateClock(d, distance, now) ==
  LET c == ClockSystem_setDistanceFactor(d.clock, DemoScene_distanceFactor(distance))
  IN  [clock |-> c, paint |-> PaintArgs(c, now), distance |-> distance]

\* the state after DemoScene.init(ctx)
InitDemo ==
  /\ level = 0
  /\ gates = DefaultGates
  /\ debugKeyHandler = TRUE
  /\ clock = ClockSystem_fields
  /\ rings = ClockSystem_rings(DefaultClockConfig)
  /\ frame = NoFrame
  /\ sceneManager = SceneManager_new
  /\ scenes = [i \in SceneIds |-> Unbuilt]
  /\ engine = NoEngine
  /\ trace = <<>>
  /\ controls = ControlSystem_fields
  /\ pointer = NoPointer
  /\ keyTargets = KeyTargets_enabled
  /\ demoClock = DemoScene_buildClock
  /\ lastOp = [op |-> "DemoScene.init"]

\* DemoScene.update(delta): core.update(delta), then the scene's own clock
DemoUpdate ==
  \E now \in Times, delta \in DemoDeltaInputs, distance \in DistanceInputs :
    /\ Becomes(CoreSystem_update(World, now, delta))
    /\ demoClock' = DemoScene_updateClock(demoClock, distance, now)
    /\ lastOp' = [op |-> "DemoScene.update", arg |-> now, distance |-> distance]
    /\ UNCHANGED <<debugKeyHandler, sceneManager, scenes, engine, trace, controls,
                   pointer, keyTargets>>

\* the presence hotkeys, which the CoreSystem of the scene enables
DemoKeyDown == KeyDownFrom({"]", "\\"}, {"body"})

NextDemo == DemoUpdate \/ DemoKeyDown

SpecDemo == InitDemo /\ [][NextDemo]_vars

\* the clock fields c hold this frame's distance factor and this frame's
\* per-ring presence values
DrivenThisFrame(c) ==
  LET levels == getClockPresenceLevels(level, gates)
  IN  /\ c.distanceFactor = DemoScene_distanceFactor(lastOp.distance)
      /\ c.hourPresence = Clamp(levels.hour, 0, One)
      /\ c.minutePresence = Clamp(levels.minute, 0, One)
      /\ c.secondPresence = Clamp(levels.second, 0, One)

\* C25: after a DemoScene.update both clocks of the scene graph, the one
\* inside CoreSystem and the scene's own, were painted with this frame's
\* distance factor and this frame's presence values, and the clock with
\* global intensity 0.9 is one that has the presence values
BothClocksDriven ==
  lastOp.op = "DemoScene.update" =>
    /\ DrivenThisFrame(clock)
    /\ DrivenThisFrame(demoClock.clock)
    /\ demoClock.clock.globalIntensity = 900 * Thousand

\* ------------------------------------------------------------------
\* The debug hotkeys: which closures listen on which target
\* ------------------------------------------------------------------

\* the closures attached to the targets a keydown dispatched at `at` passes:
\* the target itself, and window, to which every keydown bubbles
Listening(k, at) == {l \in k.attached : l[1] = at \/ l[1] = "window"}

\* enableDebugHotkeys(target)
PresenceSystem_enableDebugHotkeys(k, target) ==
  IF k.handler # 0 THEN k
  ELSE [attached |-> k.attached \cup {<<target, k.made + 1>>},
        handler |-> k.made + 1, made |-> k.made + 1]

\* disableDebugHotkeys(target): removeEventListener finds the closure only
\* on the target it was added to
PresenceSystem_disableDebugHotkeys(k, target) ==
  IF k.handler = 0 THEN k
  ELSE [k EXCEPT !.attached = @ \ {<<target, k.handler>>}, !.handler = 0]

\* the level after n closures have handled one keydown, one after the other
RECURSIVE Handled(_, _, _, _)
Handled(cur, key, tag, n) ==
  IF n = 0 THEN cur ELSE Handled(debugKeyHandlerResult(cur, key, tag), key, tag, n - 1)

EnableDebugHotkeys ==
  \E target \in Targets :
    /\ keyTargets.made < MaxHandlers
    /\ keyTargets' = PresenceSystem_enableDebugHotkeys(keyTargets, target)
    /\ debugKeyHandler' = (keyTargets'.handler # 0)
    /\ lastOp' = [op |-> "enableDebugHotkeys", arg |-> target]
    /\ UNCHANGED <<level, gates, clockVars, sceneManager, scenes, engine, trace,
                   controls, pointer, demoClock>>

\* also what CoreSystem.dispose does, with the default target
DisableDebugHotkeys ==
  \E target \in Targets :
    /\ keyTargets' = PresenceSystem_disableDebugHotkeys(keyTargets, target)
    /\ debugKeyHandler' = (keyTargets'.handler # 0)
    /\ lastOp' = [op |-> "disableDebugHotkeys", arg |-> target]
    /\ UNCHANGED <<level, gates, clockVars, sceneManager, scenes, engine, trace,
                   controls, pointer, demoClock>>

\* a keydown dispatched at `at`, its target element having tag name `tag`
HotkeyDown ==
  \E key \in {"[", "]", "\\"}, tag \in {"body", "input"}, at \in Targets :
    /\ level' = Handled(level, key, tag, Cardinality(Listening(keyTargets, at)))
    /\ lastOp' = [op |-> "keydown", arg |-> <<key, tag>>, at |-> at]
    /\ UNCHANGED <<gates, debugKeyHandler, clockVars, appVars>>

NextHotkeys == EnableDebugHotkeys \/ DisableDebugHotkeys \/ HotkeyDown

SpecHotkeys == Init /\ [][NextHotkeys]_vars

\* C29: never more than one keydown listener is attached, and none is left
\* once disableDebugHotkeys has cleared the handler
AtMostOneKeyListener ==
  /\ Cardinality(keyTargets.attached) <= 1
  /\ keyTargets.handler = 0 => keyTargets.attached = {}

====
